---- MODULE Spec2Model ----
(***************************************************************************)
(* Conduit client library (utilities/src/conduit.py) and the consumer      *)
(* script (utilities/src/task_onsub.py).                                   *)
(*                                                                         *)
(* Three specifications:                                                   *)
(*   SpecEnc    the parameter encoder applied to bounded Parameter Trees   *)
(*   Spec       the request dispatcher: ConduitBase._go / _execute         *)
(*   SpecScript one run of task_onsub.process                              *)
(***************************************************************************)
EXTENDS Integers, Sequences, FiniteSets, TLC

VARIABLES
    tree,        \* SpecEnc: the Parameter Tree handed to the encoder
    wire,        \* SpecEnc: what iterating the encoder produced
    token,       \* ConduitBase.token (Factory.token in SpecScript)
    host,        \* ConduitBase.host (Factory.host in SpecScript)
    prefix,      \* ConduitBase.prefix
    params,      \* Spec: the caller's params object, as it is after the last call
    call,        \* Spec: the last call: its arguments and the instance it found
    sent,        \* Spec: the requests the transport got during the last call
    reply,       \* Spec: what the transport did with the last call's request
    outcome,     \* Spec: how the last call ended
    pc,          \* SpecScript: where process() is
    who,         \* SpecScript: process's who
    project_phid,\* SpecScript: process's project_phid
    sub,         \* SpecScript: process's sub
    posts,       \* SpecScript: the requests the transport got, in order
    replies      \* SpecScript: what the transport did with each of them

encVars == <<tree, wire>>
instVars == <<token, host, prefix>>
callVars == <<params, call, sent, reply, outcome>>
scriptVars == <<pc, who, project_phid, sub, posts, replies>>
vars == <<encVars, instVars, callVars, scriptVars>>

(***************************************************************************)
(* Python values.  A value is a record tagged with its Python type; a dict *)
(* keeps its insertion order (a sequence of <<key, value>> with distinct   *)
(* keys).                                                                  *)
(***************************************************************************)
None == [t |-> "None"]
Str(s) == [t |-> "str", v |-> s]
Dict(items) == [t |-> "dict", items |-> items]
List(elems) == [t |-> "list", elems |-> elems]

\* len(x) of a str, dict or list
len(x) ==
    CASE x.t = "str" -> Len(x.v)
      [] x.t = "dict" -> Len(x.items)
      [] x.t = "list" -> Len(x.elems)

Digit(d) ==
    CASE d = 0 -> "0" [] d = 1 -> "1" [] d = 2 -> "2" [] d = 3 -> "3"
      [] d = 4 -> "4" [] d = 5 -> "5" [] d = 6 -> "6" [] d = 7 -> "7"
      [] d = 8 -> "8" [] d = 9 -> "9"

\* str(idx) of a non-negative int
RECURSIVE str(_)
str(n) == IF n < 10 THEN Digit(n) ELSE str(n \div 10) \o Digit(n % 10)

(***************************************************************************)
(* Generators.  Iterating a generator gives the strings it yielded and     *)
(* tells whether the iteration ended by an exception being raised.         *)
(***************************************************************************)
Yielded(out) == [raised |-> FALSE, out |-> out]
Raised(out) == [raised |-> TRUE, out |-> out]

\* g1 runs to its end and then g2 runs, unless g1 raised
Then(g1, g2) ==
    IF g1.raised THEN g1
    ELSE [raised |-> g2.raised, out |-> g1.out \o g2.out]

\* ConduitBase._build: name + "=" + value (TypeError unless value is a str)
_build(name, value) ==
    IF value.t = "str" THEN Yielded(<<name \o "=" \o value.v>>)
    ELSE Raised(<<>>)

\* ConduitBase._encode_list, the loop from index idx on
RECURSIVE _encode_list_from(_, _, _)
_encode_list_from(pfx, vals, idx) ==
    IF idx >= Len(vals.elems) THEN Yielded(<<>>)
    ELSE Then(_build(pfx \o "[" \o str(idx) \o "]", vals.elems[idx + 1]),
              _encode_list_from(pfx, vals, idx + 1))

_encode_list(pfx, vals) == _encode_list_from(pfx, vals, 0)

RECURSIVE _encode(_, _, _)
RECURSIVE _encode_dict_from(_, _, _, _)

\* a faulty variant of _encode_dict_key: the nested flag is not honoured
_encode_dict_key_bare(pfx, item, nested) == item

\* a faulty variant of _encode_dict_key: the key is bracketed at every level
_encode_dict_key_always(pfx, item, nested) == pfx \o "[" \o item \o "]"

\* ConduitBase._encode_dict, the field name of one key
_encode_dict_key(pfx, item, nested) ==
    IF nested THEN pfx \o "[" \o item \o "]" ELSE item

\* ConduitBase._encode_dict, the loop from the i-th key on
_encode_dict_from(pfx, vals, nested, i) ==
    IF i > Len(vals.items) THEN Yielded(<<>>)
    ELSE LET item == vals.items[i][1]
             key == _encode_dict_key(pfx, item, nested)
         IN Then(_encode(key, vals.items[i][2], TRUE),
                 _encode_dict_from(pfx, vals, nested, i + 1))

_encode_dict(pfx, vals, nested) == _encode_dict_from(pfx, vals, nested, 1)

\* ConduitBase._encode
_encode(pfx, vals, child) ==
    IF vals.t = "str" THEN _build(pfx, vals)
    ELSE IF vals.t = "dict" THEN _encode_dict(pfx, vals, child)
    ELSE _encode_list(pfx, vals)

\* ConduitBase._execute, the flattening of the parameters in manual mode
EncodeParameters(parameters) ==
    IF parameters # None /\ len(parameters) > 0
    THEN _encode("", parameters, FALSE)
    ELSE Yielded(<<>>)

(***************************************************************************)
(* Python helpers the dispatcher uses.                                     *)
(***************************************************************************)
\* sep.join(strs)
RECURSIVE Join(_, _)
Join(sep, strs) ==
    IF strs = <<>> THEN ""
    ELSE IF Len(strs) = 1 THEN strs[1]
    ELSE strs[1] \o sep \o Join(sep, Tail(strs))

HasKey(d, k) == \E i \in 1..Len(d.items) : d.items[i][1] = k

\* d[k], for a key d has
GetItem(d, k) == d.items[CHOOSE i \in 1..Len(d.items) : d.items[i][1] = k][2]

\* d[k] = v: an existing key keeps its place, a new one goes last
SetItem(d, k, v) ==
    IF HasKey(d, k)
    THEN Dict([i \in 1..Len(d.items) |->
                  IF d.items[i][1] = k THEN <<k, v>> ELSE d.items[i]])
    ELSE Dict(Append(d.items, <<k, v>>))

\* repr(v), which is str(v) for every value but a str
RECURSIVE repr(_)
repr(v) ==
    CASE v.t = "None" -> "None"
      [] v.t = "str" -> "'" \o v.v \o "'"
      [] v.t = "list" ->
            "[" \o Join(", ", [i \in 1..Len(v.elems) |-> repr(v.elems[i])]) \o "]"
      [] v.t = "dict" ->
            "{" \o Join(", ", [i \in 1..Len(v.items) |->
                      repr(Str(v.items[i][1])) \o ": " \o repr(v.items[i][2])]) \o "}"

\* the characters urllib never quotes
AlwaysSafe ==
    {"a", "b", "c", "d", "e", "f", "g", "h", "i", "j", "k", "l", "m", "n", "o",
     "p", "q", "r", "s", "t", "u", "v", "w", "x", "y", "z", "A", "B", "C", "D",
     "E", "F", "G", "H", "I", "J", "K", "L", "M", "N", "O", "P", "Q", "R", "S",
     "T", "U", "V", "W", "X", "Y", "Z", "0", "1", "2", "3", "4", "5", "6", "7",
     "8", "9", "_", ".", "-", "~"}

QuoteChar(c) ==
    IF c \in AlwaysSafe THEN c
    ELSE CASE c = " " -> "+"
           [] c = "&" -> "%26" [] c = "=" -> "%3D" [] c = "/" -> "%2F"
           [] c = ":" -> "%3A" [] c = "," -> "%2C" [] c = "'" -> "%27"
           [] c = "[" -> "%5B" [] c = "]" -> "%5D"
           [] c = "{" -> "%7B" [] c = "}" -> "%7D"
           [] c = "\n" -> "%0A"

\* urllib.parse.quote_plus
RECURSIVE quote_plus(_)
quote_plus(s) ==
    IF Len(s) = 0 THEN ""
    ELSE QuoteChar(SubSeq(s, 1, 1)) \o quote_plus(SubSeq(s, 2, Len(s)))

\* urllib.parse.urlencode of a dict
urlencode(query) ==
    Join("&", [i \in 1..Len(query.items) |->
        quote_plus(query.items[i][1]) \o "="
            \o (IF query.items[i][2].t = "str"
                THEN quote_plus(query.items[i][2].v)
                ELSE quote_plus(repr(query.items[i][2])))])

(***************************************************************************)
(* The dispatcher.  self is the instance, [token, host, prefix].  A call   *)
(* runs up to curl.perform(): either it has ended by then (an exception),  *)
(* or it has handed one request to the transport.  Both tell the instance  *)
(* and the caller's parameters object as the call left them.               *)
(***************************************************************************)
Return(value) == [kind |-> "return", value |-> value]
Raise(exc, msg) == [kind |-> "raise", exc |-> exc, msg |-> msg]

Ended(out, self, parameters) ==
    [kind |-> "ended", outcome |-> out, self |-> self, parameters |-> parameters]
Posted(url, posting, self, parameters) ==
    [kind |-> "posted", request |-> [url |-> url, body |-> posting],
     self |-> self, parameters |-> parameters]

\* a faulty variant of ManualFields: the token is appended after the parameters
ManualFields_token_last(self, parameters) ==
    Then(EncodeParameters(parameters), _build("api.token", self.token))

\* ConduitBase._execute, manual_post: the fields list
ManualFields(self, parameters) ==
    Then(_build("api.token", self.token), EncodeParameters(parameters))

\* "&".join(fields)
ManualPosting(fields, parameters) ==
    [raised |-> fields.raised, posting |-> Join("&", fields.out),
     parameters |-> parameters]

\* a faulty variant of StandardParams: the token is put into a copy of the parameters
StandardParams_copy(self, parameters) ==
    IF parameters = None
    THEN [raised |-> FALSE, params |-> Dict(<<<<"api.token", self.token>>>>),
          parameters |-> parameters]
    ELSE IF parameters.t # "dict"
    THEN [raised |-> TRUE, params |-> parameters, parameters |-> parameters]
    ELSE [raised |-> FALSE, params |-> SetItem(parameters, "api.token", self.token),
          parameters |-> parameters]

\* ConduitBase._execute, not manual_post: params, which is the caller's own
\* object unless the caller gave None (item assignment on a str or a list
\* raises TypeError)
StandardParams(self, parameters) ==
    IF parameters = None
    THEN [raised |-> FALSE, params |-> Dict(<<<<"api.token", self.token>>>>),
          parameters |-> parameters]
    ELSE IF parameters.t # "dict"
    THEN [raised |-> TRUE, params |-> parameters, parameters |-> parameters]
    ELSE [raised |-> FALSE, params |-> SetItem(parameters, "api.token", self.token),
          parameters |-> SetItem(parameters, "api.token", self.token)]

\* urlencode(params)
StandardPosting(std) ==
    [raised |-> std.raised,
     posting |-> IF std.raised THEN "" ELSE urlencode(std.params),
     parameters |-> std.parameters]

\* ConduitBase._execute, the post data
Posting(self, manual_post, parameters) ==
    IF manual_post
    THEN ManualPosting(ManualFields(self, parameters), parameters)
    ELSE StandardPosting(StandardParams(self, parameters))

\* ConduitBase._execute from the post data to curl.perform()
Post(self, endpoint, post) ==
    IF post.raised
    THEN Ended(Raise("TypeError", None), self, post.parameters)
    ELSE Posted(self.host.v \o "/api/" \o endpoint, post.posting, self, post.parameters)

\* a faulty variant of _execute: the token is not checked
_execute_token_unchecked(self, endpoint, manual_post, parameters) ==
    IF self.host = None
    THEN Ended(Raise("Exception", Str("no host given...")), self, parameters)
    ELSE Post(self, endpoint, Posting(self, manual_post, parameters))

\* ConduitBase._execute up to curl.perform()
_execute(self, endpoint, manual_post, parameters) ==
    IF self.token = None
    THEN Ended(Raise("Exception", Str("no token given...")), self, parameters)
    ELSE IF self.host = None
    THEN Ended(Raise("Exception", Str("no host given...")), self, parameters)
    ELSE Post(self, endpoint, Posting(self, manual_post, parameters))

\* ConduitBase._go
_go(self, operator, parameters, manual_post) ==
    IF self.prefix = None
    THEN Ended(Raise("Exception", Str("no prefix configured")), self, parameters)
    ELSE _execute(self, self.prefix.v \o "." \o operator, manual_post, parameters)

\* a faulty variant of Unwrap: the error raised carries error_code
Unwrap_code_as_message(resp) ==
    CASE resp.kind = "error" -> Raise("pycurl.error", None)
      [] resp.kind = "notjson" -> Raise("JSONDecodeError", None)
      [] resp.kind = "nokeys" -> Raise("KeyError", None)
      [] resp.kind = "envelope" ->
            IF resp.error_code = None THEN Return(resp.result)
            ELSE Raise("Exception", resp.error_code)

\* ConduitBase._execute from curl.perform() on: the transport fails, or the
\* body is not JSON, or it is JSON without the envelope's keys, or it is an
\* envelope
Unwrap(resp) ==
    CASE resp.kind = "error" -> Raise("pycurl.error", None)
      [] resp.kind = "notjson" -> Raise("JSONDecodeError", None)
      [] resp.kind = "nokeys" -> Raise("KeyError", None)
      [] resp.kind = "envelope" ->
            IF resp.error_code = None THEN Return(resp.result)
            ELSE Raise("Exception", resp.error_info)

(***************************************************************************)
(* Bounded Parameter Trees: every tree of at most MaxNodes nodes (a node   *)
(* is a string leaf, a mapping or a sequence) over Keys and Values.        *)
(***************************************************************************)
MaxNodes == 4
Keys == {"a", "b", "0"}
Values == {"x"}

Min(a, b) == IF a < b THEN a ELSE b

KeySeqs(j) == {ks \in [1..j -> Keys] : \A p, q \in 1..j : ks[p] = ks[q] => p = q}

RECURSIVE TreesOfSize(_)
RECURSIVE Forests(_, _)
\* the sequences of j trees with n nodes together
Forests(n, j) ==
    IF j = 0 THEN (IF n = 0 THEN {<<>>} ELSE {})
    ELSE UNION {{<<t>> \o f : t \in TreesOfSize(a), f \in Forests(n - a, j - 1)} :
                a \in 1..n}

\* the trees of n nodes
TreesOfSize(n) ==
    IF n = 0 THEN {}
    ELSE (IF n = 1 THEN {Str(v) : v \in Values} ELSE {})
         \cup {List(f) : f \in UNION {Forests(n - 1, j) : j \in 0..(n - 1)}}
         \cup UNION {{Dict([i \in 1..j |-> <<ks[i], f[i]>>]) :
                          ks \in KeySeqs(j), f \in Forests(n - 1, j)} :
                     j \in 0..Min(n - 1, Cardinality(Keys))}

TreesUpTo(n) == UNION {TreesOfSize(a) : a \in 1..n}

Trees == {t : t \in TreesUpTo(MaxNodes)}

\* the structure of spec section 8 and the ones the endpoint modules build
ExampleTransactions ==
    Dict(<< <<"transactions",
              List(<<Dict(<< <<"type", Str("custom.text")>>,
                             <<"value", Str("hi")>> >>)>>)>> >>)
ExampleConstraints ==
    Dict(<< <<"queryKey", Str("upcoming")>>,
            <<"constraints", Dict(<< <<"subscribers", List(<<Str("PHID-USER-1")>>)>> >>)>> >>)
Examples == {ExampleTransactions, ExampleConstraints}

NotRun == [raised |-> FALSE, out |-> <<"(not run)">>]

InitEnc ==
    /\ tree \in Trees \cup Examples
    /\ wire = NotRun
    /\ token = None /\ host = None /\ prefix = None
    /\ params = None /\ call = None /\ sent = <<>> /\ reply = None /\ outcome = None
    /\ pc = "off" /\ who = None /\ project_phid = None /\ sub = None
    /\ posts = <<>> /\ replies = <<>>

\* the encoder is iterated to its end over the tree
Encode ==
    /\ wire = NotRun
    /\ wire' = EncodeParameters(tree)
    /\ UNCHANGED <<tree, instVars, callVars, scriptVars>>

NextEnc == Encode

SpecEnc == InitEnc /\ [][NextEnc]_vars

(***************************************************************************)
(* The wire pairs the specification asks for, computed leaf by leaf: the   *)
(* leaves of a tree in depth-first order, each with the path that leads to *)
(* it, and the field name of a path.                                       *)
(***************************************************************************)
RECURSIVE ConcatAll(_)
ConcatAll(ss) == IF ss = <<>> THEN <<>> ELSE Head(ss) \o ConcatAll(Tail(ss))

Under(step, leaves) ==
    [j \in 1..Len(leaves) |->
        [path |-> <<step>> \o leaves[j].path, value |-> leaves[j].value]]

RECURSIVE Leaves(_)
Leaves(t) ==
    CASE t.t = "str" -> <<[path |-> <<>>, value |-> t.v]>>
      [] t.t = "dict" ->
            ConcatAll([i \in 1..Len(t.items) |->
                Under([kind |-> "key", s |-> t.items[i][1]], Leaves(t.items[i][2]))])
      [] t.t = "list" ->
            ConcatAll([i \in 1..Len(t.elems) |->
                Under([kind |-> "idx", s |-> str(i - 1)], Leaves(t.elems[i]))])

RECURSIVE Brackets(_)
Brackets(p) == IF p = <<>> THEN "" ELSE "[" \o Head(p).s \o "]" \o Brackets(Tail(p))

FieldName(p) ==
    IF p = <<>> THEN ""
    ELSE IF Head(p).kind = "key" THEN Head(p).s \o Brackets(Tail(p))
    ELSE Brackets(p)

WirePairs(t) ==
    LET ls == Leaves(t)
    IN [i \in 1..Len(ls) |-> FieldName(ls[i].path) \o "=" \o ls[i].value]

RECURSIVE HasList(_)
HasList(t) ==
    CASE t.t = "str" -> FALSE
      [] t.t = "list" -> TRUE
      [] t.t = "dict" -> \E i \in 1..Len(t.items) : HasList(t.items[i][2])

IsEmpty(t) == t.t # "str" /\ len(t) = 0

RECURSIVE HasEmpty(_)
HasEmpty(t) ==
    CASE t.t = "str" -> FALSE
      [] t.t = "list" -> Len(t.elems) = 0 \/ \E i \in 1..Len(t.elems) : HasEmpty(t.elems[i])
      [] t.t = "dict" -> Len(t.items) = 0 \/ \E i \in 1..Len(t.items) : HasEmpty(t.items[i][2])

\* every element of every sequence is a string or an empty mapping or sequence
RECURSIVE ElementsStrOrEmpty(_)
ElementsStrOrEmpty(t) ==
    CASE t.t = "str" -> TRUE
      [] t.t = "list" -> \A i \in 1..Len(t.elems) : t.elems[i].t = "str" \/ IsEmpty(t.elems[i])
      [] t.t = "dict" -> \A i \in 1..Len(t.items) : ElementsStrOrEmpty(t.items[i][2])

\* a mapping whose values are strings or such mappings
RECURSIVE MappingOnly(_)
MappingOnly(t) ==
    /\ t.t = "dict"
    /\ \A i \in 1..Len(t.items) :
          t.items[i][2].t = "str" \/ MappingOnly(t.items[i][2])

RECURSIVE NumLeaves(_)
RECURSIVE SumLeaves(_)
SumLeaves(ts) == IF ts = <<>> THEN 0 ELSE NumLeaves(Head(ts)) + SumLeaves(Tail(ts))
NumLeaves(t) ==
    CASE t.t = "str" -> 1
      [] t.t = "list" -> SumLeaves(t.elems)
      [] t.t = "dict" -> SumLeaves([i \in 1..Len(t.items) |-> t.items[i][2]])

Encoded == wire # NotRun

\* C1: a sequence is encoded by encoding each element, string, mapping or
\* sequence, under prefix[i]; the structure {"transactions": [{"type":
\* "custom.text", "value": "hi"}]} gives transactions[0][type]=custom.text and
\* then transactions[0][value]=hi.
C1_SequenceElementsAreEncoded ==
    /\ (Encoded /\ HasList(tree) /\ ~HasEmpty(tree)) =>
          (~wire.raised /\ wire.out = WirePairs(tree))
    /\ (Encoded /\ tree = ExampleTransactions) =>
          wire = Yielded(<<"transactions[0][type]=custom.text",
                           "transactions[0][value]=hi">>)

\* C4: an empty mapping or sequence, at the top, as a mapping's value or as a
\* sequence's element, gives no wire pair and raises nothing, and the pairs of
\* the subtrees beside it are the ones they have without it.
C4_EmptySubtreesAreDropped ==
    (Encoded /\ HasEmpty(tree) /\ ElementsStrOrEmpty(tree)) =>
        (~wire.raised /\ wire.out = WirePairs(tree))

\* C7: a tree of mappings with string leaves gives one wire pair per leaf, named
\* by its bare key directly under the top mapping and topkey[k1]...[kn] deeper,
\* in the depth-first iteration order of the mappings.
C7_MappingLeavesInOrder ==
    (Encoded /\ MappingOnly(tree)) =>
        /\ ~wire.raised
        /\ Len(wire.out) = NumLeaves(tree)
        /\ wire.out = WirePairs(tree)

C7_Witness ==
    /\ tree = Dict(<< <<"b", Dict(<< <<"a", Str("x")>>, <<"0", Str("x")>> >>)>> >>)
    /\ wire = Yielded(<<"b[a]=x", "b[0]=x">>)

\* the same tree but for the iteration order of its mappings
RECURSIVE SameUpToOrder(_, _)
SameUpToOrder(t1, t2) ==
    /\ t1.t = t2.t
    /\ CASE t1.t = "str" -> t1.v = t2.v
         [] t1.t = "list" ->
               /\ Len(t1.elems) = Len(t2.elems)
               /\ \A i \in 1..Len(t1.elems) : SameUpToOrder(t1.elems[i], t2.elems[i])
         [] t1.t = "dict" ->
               /\ Len(t1.items) = Len(t2.items)
               /\ \A i \in 1..Len(t1.items) : \E j \in 1..Len(t2.items) :
                     /\ t1.items[i][1] = t2.items[j][1]
                     /\ SameUpToOrder(t1.items[i][2], t2.items[j][2])

\* the keys that read as a sequence index
IndexKeys == {str(i) : i \in 0..MaxNodes}

\* no empty mapping or sequence, and no mapping key that reads as an index
RECURSIVE Unambiguous(_)
Unambiguous(t) ==
    CASE t.t = "str" -> TRUE
      [] t.t = "list" ->
            Len(t.elems) > 0 /\ \A i \in 1..Len(t.elems) : Unambiguous(t.elems[i])
      [] t.t = "dict" ->
            /\ Len(t.items) > 0
            /\ \A i \in 1..Len(t.items) :
                  t.items[i][1] \notin IndexKeys /\ Unambiguous(t.items[i][2])

Encodings == [t \in Trees \cup Examples |-> EncodeParameters(t)]

UnambiguousTrees == {t : t \in {u \in DOMAIN Encodings : Unambiguous(u)}}

\* C6 as stated: two different Parameter Trees never encode to the same
\* sequence of wire pairs (so that a decoder can rebuild the tree).
C6_EncodingIsInjective ==
    (Encoded /\ ~wire.raised) =>
        \A t2 \in DOMAIN Encodings :
            Encodings[t2] = wire => SameUpToOrder(t2, tree)

\* C6 as amended: two different Parameter Trees that hold no empty mapping or
\* sequence and no mapping key that reads as a sequence index never encode to
\* the same sequence of wire pairs.
C6_UnambiguousEncodingIsInjective ==
    (Encoded /\ ~wire.raised /\ Unambiguous(tree)) =>
        \A t2 \in UnambiguousTrees :
            Encodings[t2] = wire => SameUpToOrder(t2, tree)

C6_Witness ==
    /\ tree = Dict(<< <<"a", List(<<Str("x")>>)>>, <<"b", Str("x")>> >>)
    /\ wire = Yielded(<<"a[0]=x", "b=x">>)

(***************************************************************************)
(* Spec: calls on one endpoint module instance.                            *)
(***************************************************************************)
MaxParamNodes == 2

ExampleOwnToken == Dict(<< <<"api.token", Str("mine")>>, <<"a", Str("x")>> >>)
ExampleTitle == Dict(<< <<"slug", Str("a/b")>>, <<"title", Str("a b&c=d")>> >>)

ParamTrees == {t \in TreesUpTo(MaxParamNodes) : t.t = "dict"}

CallParams ==
    {p : p \in {None} \cup ParamTrees
                 \cup {ExampleTransactions, ExampleConstraints, ExampleOwnToken, ExampleTitle}}

Operators == {"whoami"}

Envelope(result, error_code, error_info) ==
    [kind |-> "envelope", result |-> result, error_code |-> error_code,
     error_info |-> error_info]

Responses ==
    {[kind |-> "error"], [kind |-> "notjson"], [kind |-> "nokeys"]}
    \cup {Envelope(r, c, i) :
            r \in {None, Dict(<< <<"phid", Str("PHID-USER-1")>> >>)},
            c \in {None, Str("ERR-BAD-TOKEN")},
            i \in {None, Str("Invalid token.")}}

Pending == [kind |-> "pending"]

Init ==
    /\ token \in {None, Str("api-tok")}
    /\ host \in {None, Str("https://phab.example")}
    /\ prefix \in {None, Str(""), Str("user")}
    /\ params = None /\ call = None /\ sent = <<>> /\ reply = None /\ outcome = None
    /\ tree = None /\ wire = NotRun
    /\ pc = "off" /\ who = None /\ project_phid = None /\ sub = None
    /\ posts = <<>> /\ replies = <<>>

\* a call self._go(operator, parameters, manual_post), from its start to its
\* exception or to curl.perform()
Invoke(operator, parameters, manual_post) ==
    /\ outcome # Pending
    /\ \E self \in {[token |-> token, host |-> host, prefix |-> prefix]} :
       \E r \in {_go(self, operator, parameters, manual_post)} :
          /\ call' = [operator |-> operator, parameters |-> parameters,
                      manual_post |-> manual_post, self |-> self]
          /\ params' = r.parameters
          /\ sent' = IF r.kind = "posted" THEN <<r.request>> ELSE <<>>
          /\ reply' = None
          /\ outcome' = IF r.kind = "posted" THEN Pending ELSE r.outcome
          /\ token' = r.self.token /\ host' = r.self.host /\ prefix' = r.self.prefix
    /\ UNCHANGED <<encVars, scriptVars>>

InvokeManual ==
    \E operator \in Operators, parameters \in CallParams :
        Invoke(operator, parameters, TRUE)

InvokeStandard ==
    \E operator \in Operators, parameters \in CallParams :
        Invoke(operator, parameters, FALSE)

\* curl.perform() comes back and the call runs to its return or its exception
Respond ==
    /\ outcome = Pending
    /\ \E resp \in Responses :
          /\ reply' = resp
          /\ outcome' = Unwrap(resp)
    /\ UNCHANGED <<params, call, sent, instVars, encVars, scriptVars>>

Next == InvokeManual \/ InvokeStandard \/ Respond

Spec == Init /\ [][Next]_vars

\* the last call is over
Called == call # None /\ outcome # Pending

C3_EnvelopeUnwrapped ==
    (Called /\ reply # None /\ reply.kind = "envelope") =>
        IF reply.error_code = None
        THEN outcome = Return(reply.result)
        ELSE outcome = Raise("Exception", reply.error_info)

C3_Witness ==
    /\ Called
    /\ reply = Envelope(None, Str("ERR-BAD-TOKEN"), Str("Invalid token."))
    /\ outcome = Raise("Exception", Str("Invalid token."))

RECURSIVE AmpEach(_)
AmpEach(pairs) ==
    IF pairs = <<>> THEN "" ELSE "&" \o Head(pairs) \o AmpEach(Tail(pairs))

\* C5: in manual mode the body of the request begins with api.token=<token>;
\* it is that pair alone when params is absent or empty, and otherwise that
\* pair followed by the flattened params pairs, each after an "&".
C5_ManualBodyStartsWithToken ==
    (call # None /\ call.manual_post /\ sent # <<>>) =>
        LET pair == "api.token=" \o token.v
            body == sent[1].body
        IN /\ Len(sent) = 1
           /\ SubSeq(body, 1, Len(pair)) = pair
           /\ IF call.parameters = None \/ len(call.parameters) = 0
              THEN body = pair
              ELSE body = pair \o AmpEach(_encode("", call.parameters, FALSE).out)

C5_Witness ==
    /\ Called /\ call.manual_post
    /\ call.parameters = ExampleOwnToken
    /\ sent # <<>>
    /\ sent[1].body = "api.token=api-tok&api.token=mine&a=x"

\* C8: a call makes at most one POST, exactly one when the prefix, the token
\* and the host are configured, and its result is decided only after the POST.
C8_ExactlyOnePost ==
    Called =>
        /\ Len(sent) <= 1
        /\ reply # None => Len(sent) = 1
        /\ (prefix \notin {None, Str("")} /\ token # None /\ host # None) =>
              Len(sent) = 1
        /\ outcome.kind = "return" => Len(sent) = 1
        /\ [token |-> token, host |-> host, prefix |-> prefix] = call.self

\* the items of a mapping but the one of key k, in order
Others(d, k) == SelectSeq(d.items, LAMBDA item : item[1] # k)

\* C9: a call in manual mode leaves the caller's params as they are; a call in
\* standard mode changes nothing of them but the key api.token, which is set to
\* the token once the call is past its checks and stays so however the call
\* ends; no call changes the instance's token, host or prefix.
C9_OnlyTokenKeyChanges ==
    call # None =>
        /\ call.manual_post => params = call.parameters
        /\ (~call.manual_post /\ (sent = <<>> \/ call.parameters = None)) =>
              params = call.parameters
        /\ (~call.manual_post /\ sent # <<>> /\ call.parameters # None) =>
              /\ params.t = "dict"
              /\ Others(params, "api.token") = Others(call.parameters, "api.token")
              /\ HasKey(params, "api.token")
              /\ GetItem(params, "api.token") = token
        /\ [token |-> token, host |-> host, prefix |-> prefix] = call.self

C9_Witness ==
    /\ Called /\ ~call.manual_post
    /\ call.parameters = ExampleOwnToken
    /\ outcome.kind = "raise" /\ sent # <<>>
    /\ params = Dict(<< <<"api.token", Str("api-tok")>>, <<"a", Str("x")>> >>)

(***************************************************************************)
(* SpecScript: one run of task_onsub.process(factory, room, project).      *)
(* token and host are the factory's; every remote call is one step, taken  *)
(* with what the transport does with its request.                          *)
(***************************************************************************)
MaxTasks == 2

Room == Str("42")
ProjectName == Str("ops")

\* the prefix each endpoint class sets in __init__
UserPrefix == "user"
ProjectPrefix == "project"
ManiphestPrefix == "maniphest"
ConpherencePrefix == "conpherence"

\* Factory.create
create(factory_token, factory_host, obj_prefix) ==
    [token |-> factory_token, host |-> factory_host, prefix |-> Str(obj_prefix)]

\* User.whoami
whoami(self) == _go(self, "whoami", None, TRUE)

\* Project.by_name, through Project._query
by_name(self, name) ==
    _go(self, "query", Dict(<< <<"names", List(<<name>>)>> >>), TRUE)

\* Maniphest.open_and_subscribed, through _open_params and Maniphest._query
open_and_subscribed(self, user_phid) ==
    _go(self, "query",
        SetItem(Dict(<< <<"status", Str("status-open")>> >>), "ccPHIDs", List(<<user_phid>>)),
        TRUE)

\* Conpherence.updatethread
updatethread(self, room, message) ==
    _go(self, "updatethread", Dict(<< <<"id", room>>, <<"message", message>> >>), TRUE)

\* x in a list
In(x, list) == \E i \in 1..Len(list.elems) : list.elems[i] = x

\* process: project_phid after the loop over a list of items that breaks at
\* the first
FirstProject(data) ==
    IF Len(data.elems) = 0 THEN None
    ELSE GetItem(data.elems[1], "phid")

\* a faulty variant of Reported: the status is not looked at
Reported_any_status(datum, phid) == In(phid, GetItem(datum, "projectPHIDs"))

\* process: the two tests a task passes to be reported
Reported(datum, phid) ==
    /\ ~(GetItem(datum, "status") # Str("actionneeded"))
    /\ ~(~In(phid, GetItem(datum, "projectPHIDs")))

\* process: msgs after the loop over sub, from the i-th task on
RECURSIVE MsgsFrom(_, _, _)
MsgsFrom(tasks, phid, i) ==
    IF i > Len(tasks.items) THEN <<>>
    ELSE (IF Reported(tasks.items[i][2], phid)
          THEN <<GetItem(tasks.items[i][2], "objectName").v \o " needs action from an admin">>
          ELSE <<>>)
         \o MsgsFrom(tasks, phid, i + 1)

Msgs(tasks, phid) == MsgsFrom(tasks, phid, 1)

\* what the server may answer
Ok(result) == Envelope(result, None, None)
Failures ==
    {[kind |-> "error"],
     Envelope(None, Str("ERR-INVALID-AUTH"), Str("API token is not valid."))}

Phid(p) == Dict(<< <<"phid", Str(p)>> >>)

WhoamiResponses == Failures \cup {Ok(Phid("PHID-USER-1")), Ok(Dict(<<>>))}

ProjectResponses ==
    Failures
    \cup {Ok(Dict(<< <<"data", d>> >>)) :
            d \in {List(<<>>), List(<<Phid("PHID-PROJ-1")>>),
                   List(<<Phid("PHID-PROJ-2"), Phid("PHID-PROJ-1")>>),
                   Dict(<< <<"PHID-PROJ-1", Phid("PHID-PROJ-1")>> >>)}}

Task(name, status, projects) ==
    Dict(<< <<"objectName", Str(name)>>, <<"status", Str(status)>>,
            <<"projectPHIDs", List(projects)>> >>)

TaskPool ==
    {<<"PHID-TASK-1", Task("T1", "actionneeded", <<Str("PHID-PROJ-1")>>)>>,
     <<"PHID-TASK-2", Task("T2", "actionneeded", <<Str("PHID-PROJ-2")>>)>>,
     <<"PHID-TASK-3", Task("T3", "open", <<Str("PHID-PROJ-1")>>)>>,
     <<"PHID-TASK-4", Task("T4", "actionneeded", <<Str("PHID-PROJ-2"), Str("PHID-PROJ-1")>>)>>}

TaskLists ==
    UNION {{ts \in [1..n -> TaskPool] : \A i, j \in 1..n : ts[i] = ts[j] => i = j} :
           n \in 0..MaxTasks}

TaskResponses == Failures \cup {Ok(Dict(ts)) : ts \in TaskLists}

UpdateResponses == Failures \cup {Ok(None)}

InitScript ==
    /\ token \in {None, Str("api-tok")}
    /\ host \in {None, Str("https://phab.example")}
    /\ prefix = None
    /\ pc = "whoami" /\ who = None /\ project_phid = None /\ sub = None
    /\ posts = <<>> /\ replies = <<>>
    /\ params = None /\ call = None /\ sent = <<>> /\ reply = None /\ outcome = None
    /\ tree = None /\ wire = NotRun

\* a remote call r of process, answered by resp: the exception propagates out
\* of process, or process goes on with the result
Remote(r, resp) ==
    IF r.kind = "ended"
    THEN [out |-> r.outcome, posts |-> posts, replies |-> replies]
    ELSE [out |-> Unwrap(resp), posts |-> Append(posts, r.request),
          replies |-> Append(replies, resp)]

\* who = factory.create(conduit.User).whoami()["phid"]
Whoami ==
    /\ pc = "whoami"
    /\ \E resp \in WhoamiResponses :
       \E c \in {Remote(whoami(create(token, host, UserPrefix)), resp)} :
          /\ posts' = c.posts /\ replies' = c.replies
          /\ IF c.out.kind = "return" /\ c.out.value.t = "dict" /\ HasKey(c.out.value, "phid")
             THEN who' = GetItem(c.out.value, "phid") /\ pc' = "by_name"
             ELSE who' = who /\ pc' = "failed"
    /\ UNCHANGED <<project_phid, sub, instVars, callVars, encVars>>

\* the loop over factory.create(conduit.Project).by_name(project)["data"]
\* (iterating a dict gives its keys, and item["phid"] of a str raises)
ByName ==
    /\ pc = "by_name"
    /\ \E resp \in ProjectResponses :
       \E c \in {Remote(by_name(create(token, host, ProjectPrefix), ProjectName), resp)} :
          /\ posts' = c.posts /\ replies' = c.replies
          /\ IF c.out.kind = "return"
             THEN \E data \in {GetItem(c.out.value, "data")} :
                    IF data.t = "list"
                    THEN project_phid' = FirstProject(data) /\ pc' = "open_and_subscribed"
                    ELSE IF len(data) = 0
                    THEN project_phid' = None /\ pc' = "open_and_subscribed"
                    ELSE project_phid' = project_phid /\ pc' = "failed"
             ELSE project_phid' = project_phid /\ pc' = "failed"
    /\ UNCHANGED <<who, sub, instVars, callVars, encVars>>

\* sub = m.open_and_subscribed(who)
OpenAndSubscribed ==
    /\ pc = "open_and_subscribed"
    /\ \E resp \in TaskResponses :
       \E c \in {Remote(open_and_subscribed(create(token, host, ManiphestPrefix), who), resp)} :
          /\ posts' = c.posts /\ replies' = c.replies
          /\ IF c.out.kind = "return"
             THEN sub' = c.out.value /\ pc' = "report"
             ELSE sub' = sub /\ pc' = "failed"
    /\ UNCHANGED <<who, project_phid, instVars, callVars, encVars>>

\* the loop over sub leaves msgs empty: process returns
NothingToReport ==
    /\ pc = "report"
    /\ Len(Msgs(sub, project_phid)) = 0
    /\ pc' = "done"
    /\ UNCHANGED <<who, project_phid, sub, posts, replies, instVars, callVars, encVars>>

\* the loop over sub and conph.updatethread(room, "\n".join(msgs))
UpdateThread ==
    /\ pc = "report"
    /\ Len(Msgs(sub, project_phid)) > 0
    /\ \E resp \in UpdateResponses :
       \E c \in {Remote(updatethread(create(token, host, ConpherencePrefix), Room,
                                     Str(Join("\n", Msgs(sub, project_phid)))), resp)} :
          /\ posts' = c.posts /\ replies' = c.replies
          /\ pc' = IF c.out.kind = "return" THEN "done" ELSE "failed"
    /\ UNCHANGED <<who, project_phid, sub, instVars, callVars, encVars>>

NextScript == Whoami \/ ByName \/ OpenAndSubscribed \/ NothingToReport \/ UpdateThread

SpecScript == InitScript /\ [][NextScript]_vars

ScriptEndpoints ==
    <<"user.whoami", "project.query", "maniphest.query", "conpherence.updatethread">>

Succeeded(resp) == resp.kind = "envelope" /\ resp.error_code = None

\* the phid of the first project the second reply lists, if it lists one
FirstListed(resp) ==
    LET data == GetItem(resp.result, "data")
    IN IF data.t = "list" /\ Len(data.elems) > 0
       THEN GetItem(data.elems[1], "phid")
       ELSE None

\* one line per task of the third reply that needs action and is of the
\* project, in the reply's order
Lines(tasks, phid) ==
    LET due == SelectSeq(tasks.items, LAMBDA item :
                   /\ GetItem(item[2], "status") = Str("actionneeded")
                   /\ phid \in {GetItem(item[2], "projectPHIDs").elems[i] :
                                  i \in 1..Len(GetItem(item[2], "projectPHIDs").elems)})
    IN [k \in 1..Len(due) |->
           GetItem(due[k][2], "objectName").v \o " needs action from an admin"]

\* C10: process calls user.whoami, project.query by name, maniphest.query for
\* the open tasks the whoami user is subscribed to, and then at most once
\* conpherence.updatethread, in this order; the thread is updated only after
\* the three calls succeeded and some task needs action and is of the first
\* project found, with one line "<objectName> needs action from an admin" per
\* such task, in the tasks' order, joined by newlines; otherwise nothing is
\* posted to the thread.
C10_ScriptCallsInOrder ==
    LET tok == "api.token=" \o token.v
    IN /\ Len(posts) <= 4
       /\ Len(replies) = Len(posts)
       /\ \A i \in 1..Len(posts) :
             posts[i].url = host.v \o "/api/" \o ScriptEndpoints[i]
       /\ \A i \in 1..Len(posts) : i < Len(posts) => Succeeded(replies[i])
       /\ Len(posts) >= 1 => posts[1].body = tok
       /\ Len(posts) >= 2 => posts[2].body = tok \o "&names[0]=" \o ProjectName.v
       /\ Len(posts) >= 3 =>
             posts[3].body = tok \o "&status=status-open&ccPHIDs[0]="
                                 \o GetItem(replies[1].result, "phid").v
       /\ Len(posts) = 4 =>
             /\ Succeeded(replies[3])
             /\ Lines(replies[3].result, FirstListed(replies[2])) # <<>>
             /\ posts[4].body =
                   tok \o "&id=" \o Room.v \o "&message="
                       \o Join("\n", Lines(replies[3].result, FirstListed(replies[2])))
       /\ pc = "done" =>
             /\ Len(posts) >= 3
             /\ \A i \in 1..Len(posts) : Succeeded(replies[i])
             /\ Len(posts) = 3 <=>
                   Lines(replies[3].result, FirstListed(replies[2])) = <<>>

C10_Witness ==
    /\ pc = "done"
    /\ Len(posts) = 4
    /\ posts[4] =
          [url |-> "https://phab.example/api/conpherence.updatethread",
           body |-> "api.token=api-tok&id=42&message=T1 needs action from an admin\nT4 needs action from an admin"]

====
